---- MODULE Spec2Model ----
(***************************************************************************)
(* Reflect: the performance-metrics engine (lib/stats), the records the   *)
(* page hands to it, the page's list controls and remote records, and the  *)
(* useLocalStorageState hook.                                              *)
(*                                                                         *)
(* Monetary amounts are integers (whole currency units), so sums are       *)
(* exact.  A quotient computed by the engine is kept as an exact fraction  *)
(* n/d in lowest terms; the special results of a JavaScript division       *)
(* (Infinity, -Infinity, NaN) and the value null are kept as kinds of      *)
(* their own, so that a division by zero is visible in the result.         *)
(***************************************************************************)
EXTENDS Integers, Sequences, FiniteSets, TLC

\* ------------------------------------------------------------------ bounds

\* Most records (trades plus deposits) the caller holds at one time.
MaxEvents == 3

\* Most records (trades plus deposits) in the lists handed to an engine call
\* that is followed step by step.
MaxCallEvents == 2

\* ------------------------------------------------------------ value domains

Dates == {"2024-01-01", "2024-01-02"}
Outcomes == {"win", "loss"}
\* An outcome outside the declared union, as a stored row can carry one.
OtherOutcomes == {"breakeven"}
Sides == {"long", "short"}
Assets == {"EURUSD", "BTCUSD"}
Notes == {"", "fomo"}
Ids == {1, 2}
\* Amounts a list entry can carry (the form accepts any non-zero number, a
\* stored row any number).
Amounts == {0, 1, 2}
\* Amounts of the single trade handed to calculatePnl, negative ones included.
PnlAmounts == {-2, -1, 0, 1, 2}
DepositAmounts == {-1, 3}

\* ------------------------------------------------------------------ numbers

Abs(x) == IF x < 0 THEN -x ELSE x

Max(a, b) == IF a >= b THEN a ELSE b

RECURSIVE Gcd(_, _)
Gcd(a, b) == IF b = 0 THEN a ELSE Gcd(b, a % b)

\* The value null.
Null == [kind |-> "null", n |-> 0, d |-> 1]
NaN == [kind |-> "nan", n |-> 0, d |-> 1]
Infinity == [kind |-> "inf", n |-> 0, d |-> 1]
NegInfinity == [kind |-> "-inf", n |-> 0, d |-> 1]

\* The finite number n/d (d # 0), in lowest terms with a positive denominator.
Num(n, d) ==
    LET g == Gcd(Abs(n), Abs(d))
        s == IF d < 0 THEN -1 ELSE 1
    IN  [kind |-> "num", n |-> (s * n) \div g, d |-> (s * d) \div g]

IsNum(x) == x.kind = "num"

\* JavaScript's x / y on two finite numbers: a zero divisor gives NaN for
\* 0 / 0 and a signed Infinity otherwise.
Divide(x, y) ==
    IF y.n = 0
    THEN IF x.n = 0 THEN NaN
         ELSE IF x.n > 0 THEN Infinity ELSE NegInfinity
    ELSE Num(x.n * y.d, x.d * y.n)

\* The sign of a number: 1, -1, or 0 for zero and NaN.
SignOf(x) ==
    IF x.kind = "inf" THEN 1
    ELSE IF x.kind = "-inf" THEN -1
    ELSE IF x.n > 0 THEN 1 ELSE IF x.n < 0 THEN -1 ELSE 0

\* JavaScript's x * y: NaN and Infinity carry through the product.
Times(x, y) ==
    IF IsNum(x) /\ IsNum(y) THEN Num(x.n * y.n, x.d * y.d)
    ELSE IF SignOf(x) * SignOf(y) = 0 THEN NaN
    ELSE IF SignOf(x) * SignOf(y) > 0 THEN Infinity ELSE NegInfinity

\* Math.abs on a finite number.
MathAbs(x) == [kind |-> "num", n |-> Abs(x.n), d |-> x.d]

\* ------------------------------------------------------------------- dates

\* parseISO(date).getTime(), in days since 1970-01-01 (the time of day and
\* the zone offset are the same for every calendar date and cancel in the
\* comparator).
parseISO(date) ==
    CASE date = "2024-01-01" -> 19723
      [] date = "2024-01-02" -> 19724

\* ------------------------------------------------------------------ engine

\* calculatePnl with the sign applied to the magnitude of the amount.
calculatePnlOfMagnitude(trade) ==
    LET sign == IF trade.outcome = "win" THEN 1 ELSE -1
    IN  Abs(trade.amount) * sign

\* The signed result of one trade: the amount times +1 for a win and -1 for
\* every other outcome.
calculatePnl(trade) ==
    LET sign == IF trade.outcome = "win" THEN 1 ELSE -1
    IN  trade.amount * sign

\* trades.map(calculatePnl)
RECURSIVE pnlsOf(_)
pnlsOf(trades) ==
    IF trades = <<>> THEN <<>>
    ELSE <<calculatePnl(Head(trades))>> \o pnlsOf(Tail(trades))

\* tradeEntries with the unsigned amount as the delta.
RECURSIVE tradeEntriesUnsigned(_)
tradeEntriesUnsigned(trades) ==
    IF trades = <<>> THEN <<>>
    ELSE <<[date |-> Head(trades).date, delta |-> Head(trades).amount]>>
             \o tradeEntriesUnsigned(Tail(trades))

\* trades.map((trade) => ({ date, delta: calculatePnl(trade) }))
RECURSIVE tradeEntries(_)
tradeEntries(trades) ==
    IF trades = <<>> THEN <<>>
    ELSE <<[date |-> Head(trades).date, delta |-> calculatePnl(Head(trades))]>>
             \o tradeEntries(Tail(trades))

\* depositEntries that keeps only the positive moves.
RECURSIVE depositEntriesPositive(_)
depositEntriesPositive(deposits) ==
    IF deposits = <<>> THEN <<>>
    ELSE (IF Head(deposits).amount > 0
          THEN <<[date |-> Head(deposits).date, delta |-> Head(deposits).amount]>>
          ELSE <<>>)
             \o depositEntriesPositive(Tail(deposits))

\* deposits.map((deposit) => ({ date, delta: deposit.amount }))
RECURSIVE depositEntries(_)
depositEntries(deposits) ==
    IF deposits = <<>> THEN <<>>
    ELSE <<[date |-> Head(deposits).date, delta |-> Head(deposits).amount]>>
             \o depositEntries(Tail(deposits))

\* The comparator handed to sort: negative when a is earlier than b.
compareEntries(a, b) == parseISO(a.date) - parseISO(b.date)

\* insertEntry that moves e in front of the elements it compares equal to.
RECURSIVE insertEntryBeforeEqual(_, _)
insertEntryBeforeEqual(sorted, e) ==
    IF sorted = <<>> THEN <<e>>
    ELSE LET last == sorted[Len(sorted)]
             front == SubSeq(sorted, 1, Len(sorted) - 1)
         IN  IF compareEntries(last, e) >= 0
             THEN Append(insertEntryBeforeEqual(front, e), last)
             ELSE Append(sorted, e)

\* One insertion of a stable sort: e goes after every element that does not
\* compare greater than it.
RECURSIVE insertEntry(_, _)
insertEntry(sorted, e) ==
    IF sorted = <<>> THEN <<e>>
    ELSE LET last == sorted[Len(sorted)]
             front == SubSeq(sorted, 1, Len(sorted) - 1)
         IN  IF compareEntries(last, e) > 0
             THEN Append(insertEntry(front, e), last)
             ELSE Append(sorted, e)

\* Array.prototype.sort with compareEntries: a stable sort (ECMAScript 2019).
RECURSIVE sortEntries(_)
sortEntries(entries) ==
    IF entries = <<>> THEN <<>>
    ELSE insertEntry(sortEntries(SubSeq(entries, 1, Len(entries) - 1)),
                     entries[Len(entries)])

\* walkEquity that records the equity before the entry's delta is added.
RECURSIVE walkEquityBefore(_, _)
walkEquityBefore(entries, equity) ==
    IF entries = <<>> THEN <<>>
    ELSE LET entry == Head(entries)
             after == equity + entry.delta
         IN  <<[date |-> entry.date, value |-> equity, pnl |-> entry.delta]>>
               \o walkEquityBefore(Tail(entries), after)

\* entries.map with the running accumulator: equity is the value before the
\* first entry of the list.
RECURSIVE walkEquity(_, _)
walkEquity(entries, equity) ==
    IF entries = <<>> THEN <<>>
    ELSE LET entry == Head(entries)
             after == equity + entry.delta
         IN  <<[date |-> entry.date, value |-> after, pnl |-> entry.delta]>>
               \o walkEquity(Tail(entries), after)

buildEquityCurve(trades, deposits) ==
    LET entries == sortEntries(tradeEntries(trades) \o depositEntries(deposits))
    IN  walkEquity(entries, 0)

\* aggregateDailyPnl that stores the trade's result instead of adding it.
RECURSIVE aggregateDailyPnlLastOnly(_)
aggregateDailyPnlLastOnly(trades) ==
    IF trades = <<>> THEN << >>
    ELSE LET acc == aggregateDailyPnlLastOnly(SubSeq(trades, 1, Len(trades) - 1))
             trade == trades[Len(trades)]
             dayKey == trade.date
             pnl == calculatePnl(trade)
         IN  [k \in (DOMAIN acc) \cup {dayKey} |->
                 IF k = dayKey THEN pnl ELSE acc[k]]

\* aggregateDailyPnl that skips a trade whose result is zero.
RECURSIVE aggregateDailyPnlSkipZero(_)
aggregateDailyPnlSkipZero(trades) ==
    IF trades = <<>> THEN << >>
    ELSE LET acc == aggregateDailyPnlSkipZero(SubSeq(trades, 1, Len(trades) - 1))
             trade == trades[Len(trades)]
             dayKey == trade.date
             pnl == calculatePnl(trade)
             old == IF dayKey \in DOMAIN acc THEN acc[dayKey] ELSE 0
         IN  IF pnl = 0 THEN acc
             ELSE [k \in (DOMAIN acc) \cup {dayKey} |->
                     IF k = dayKey THEN old + pnl ELSE acc[k]]

\* aggregateDailyPnl that adds the stored amount instead of the signed result.
RECURSIVE aggregateDailyPnlUnsigned(_)
aggregateDailyPnlUnsigned(trades) ==
    IF trades = <<>> THEN << >>
    ELSE LET acc == aggregateDailyPnlUnsigned(SubSeq(trades, 1, Len(trades) - 1))
             trade == trades[Len(trades)]
             dayKey == trade.date
             old == IF dayKey \in DOMAIN acc THEN acc[dayKey] ELSE 0
         IN  [k \in (DOMAIN acc) \cup {dayKey} |->
                 IF k = dayKey THEN old + trade.amount ELSE acc[k]]

\* trades.reduce over a record keyed by the date string.
RECURSIVE aggregateDailyPnl(_)
aggregateDailyPnl(trades) ==
    IF trades = <<>> THEN << >>
    ELSE LET acc == aggregateDailyPnl(SubSeq(trades, 1, Len(trades) - 1))
             trade == trades[Len(trades)]
             dayKey == trade.date
             pnl == calculatePnl(trade)
             old == IF dayKey \in DOMAIN acc THEN acc[dayKey] ELSE 0
         IN  [k \in (DOMAIN acc) \cup {dayKey} |->
                 IF k = dayKey THEN old + pnl ELSE acc[k]]

\* const sum = (arr) => arr.reduce((a, b) => a + b, 0)
RECURSIVE sum(_)
sum(arr) == IF arr = <<>> THEN 0 ELSE Head(arr) + sum(Tail(arr))

\* averageOf over the magnitude of the sum.
averageOfMagnitude(arr) ==
    IF Len(arr) # 0 THEN Divide(Num(Abs(sum(arr)), 1), Num(Len(arr), 1)) ELSE Null

\* arr.length ? sum(arr) / arr.length : null
averageOf(arr) ==
    IF Len(arr) # 0 THEN Divide(Num(sum(arr), 1), Num(Len(arr), 1)) ELSE Null

\* profitFactorOf guarded with || instead of &&.
profitFactorOfEither(winners, losers) ==
    IF Len(winners) # 0 \/ Len(losers) # 0
    THEN Divide(Num(sum(winners), 1), Num(Abs(sum(losers)), 1))
    ELSE Null

\* profitFactorOf guarded on the winners alone.
profitFactorOfAnyLosers(winners, losers) ==
    IF Len(winners) # 0
    THEN Divide(Num(sum(winners), 1), Num(Abs(sum(losers)), 1))
    ELSE Null

profitFactorOf(winners, losers) ==
    IF Len(winners) # 0 /\ Len(losers) # 0
    THEN Divide(Num(sum(winners), 1), Num(Abs(sum(losers)), 1))
    ELSE Null

\* riskRewardOf guarded on averageWin alone: Math.abs(null) is 0.
riskRewardOfAnyLoss(averageWin, averageLoss) ==
    IF averageWin # Null
    THEN Divide(averageWin,
                MathAbs(IF averageLoss = Null THEN Num(0, 1) ELSE averageLoss))
    ELSE Null

riskRewardOf(averageWin, averageLoss) ==
    IF averageWin # Null /\ averageLoss # Null /\ averageLoss # Num(0, 1)
    THEN Divide(averageWin, MathAbs(averageLoss))
    ELSE Null

\* walkDrawdown that adds the retracements up instead of keeping the largest.
RECURSIVE walkDrawdownSum(_, _, _)
walkDrawdownSum(points, peak, maxDrawdown) ==
    IF points = <<>> THEN maxDrawdown
    ELSE LET point == Head(points)
             newPeak == Max(peak, point.value)
         IN  walkDrawdownSum(Tail(points), newPeak,
                             maxDrawdown + (newPeak - point.value))

\* walkDrawdown that keeps the drawdown as a signed (negative) retracement.
RECURSIVE walkDrawdownSigned(_, _, _)
walkDrawdownSigned(points, peak, maxDrawdown) ==
    IF points = <<>> THEN maxDrawdown
    ELSE LET point == Head(points)
             newPeak == Max(peak, point.value)
             down == point.value - newPeak
         IN  walkDrawdownSigned(Tail(points), newPeak,
                                IF down < maxDrawdown THEN down ELSE maxDrawdown)

\* The forEach over the equity points, from the point on: peak and
\* maxDrawdown are the values before the first point of the list.
RECURSIVE walkDrawdown(_, _, _)
walkDrawdown(points, peak, maxDrawdown) ==
    IF points = <<>> THEN maxDrawdown
    ELSE LET point == Head(points)
             newPeak == Max(peak, point.value)
         IN  walkDrawdown(Tail(points), newPeak,
                          Max(maxDrawdown, newPeak - point.value))

\* maxDrawdownOf with the peak started at the first point instead of 0.
maxDrawdownOfFirstPeak(equityPoints) ==
    IF equityPoints = <<>> THEN 0
    ELSE walkDrawdown(equityPoints, equityPoints[1].value, 0)

maxDrawdownOf(equityPoints) == walkDrawdown(equityPoints, 0, 0)

\* winnersOf that stops at the first result that is not a win.
RECURSIVE winnersOfLeadingRun(_)
winnersOfLeadingRun(pnls) ==
    IF pnls = <<>> \/ Head(pnls) <= 0 THEN <<>>
    ELSE <<Head(pnls)>> \o winnersOfLeadingRun(Tail(pnls))

\* winnersOf that counts a zero result as a win.
winnersOfNonNegative(pnls) == SelectSeq(pnls, LAMBDA p : p >= 0)

\* pnls.filter((p) => p > 0)
winnersOf(pnls) == SelectSeq(pnls, LAMBDA p : p > 0)

\* pnls.filter((p) => p < 0)
losersOf(pnls) == SelectSeq(pnls, LAMBDA p : p < 0)

\* The metrics returned for an empty trade list.
emptyMetrics ==
    [netPnl |-> 0, winRate |-> Num(0, 1), profitFactor |-> Null,
     riskReward |-> Null, maxDrawdown |-> 0, averageWin |-> Null,
     averageLoss |-> Null, totalTrades |-> 0]

\* The body of calculateMetrics after the emptiness check, equityPoints
\* being the curve returned by buildEquityCurve(trades).
metricsWithCurve(trades, equityPoints) ==
    LET pnls == pnlsOf(trades)
        winners == winnersOf(pnls)
        losers == losersOf(pnls)
        averageWin == averageOf(winners)
        averageLoss == averageOf(losers)
    IN  [netPnl |-> sum(pnls),
         winRate |-> Times(Divide(Num(Len(winners), 1), Num(Len(trades), 1)),
                           Num(100, 1)),
         profitFactor |-> profitFactorOf(winners, losers),
         riskReward |-> riskRewardOf(averageWin, averageLoss),
         maxDrawdown |-> maxDrawdownOf(equityPoints),
         averageWin |-> averageWin,
         averageLoss |-> averageLoss,
         totalTrades |-> Len(trades)]

metricsOfNonEmpty(trades) ==
    metricsWithCurve(trades, buildEquityCurve(trades, <<>>))

\* calculateMetrics without the emptiness check.
calculateMetricsUnchecked(trades) == metricsOfNonEmpty(trades)

\* calculateMetrics with the losers subtracted from the winners as netPnl.
calculateMetricsGrossNet(trades) ==
    IF Len(trades) = 0 THEN emptyMetrics
    ELSE [metricsOfNonEmpty(trades) EXCEPT
            !.netPnl = sum(winnersOf(pnlsOf(trades))) - sum(losersOf(pnlsOf(trades)))]

calculateMetrics(trades) ==
    IF Len(trades) = 0 THEN emptyMetrics ELSE metricsOfNonEmpty(trades)

\* totalDepositsOf that leaves the withdrawals (negative amounts) out.
RECURSIVE totalDepositsOfPositive(_)
totalDepositsOfPositive(deposits) ==
    IF deposits = <<>> THEN 0
    ELSE totalDepositsOfPositive(Tail(deposits))
         + Max(0, Head(deposits).amount)

\* deposits.reduce((acc, d) => acc + d.amount, 0)
RECURSIVE totalDepositsOf(_)
totalDepositsOf(deposits) ==
    IF deposits = <<>> THEN 0
    ELSE totalDepositsOf(SubSeq(deposits, 1, Len(deposits) - 1))
         + deposits[Len(deposits)].amount

\* netCapital = totalDeposits + metrics.netPnl
netCapitalOf(deposits, metricsOfPage) ==
    totalDepositsOf(deposits) + metricsOfPage.netPnl

\* derive with the drawdown taken from the displayed curve, deposits included.
deriveDrawdownOfDisplayedCurve(filteredTrades, deposits) ==
    [metrics |-> [calculateMetrics(filteredTrades) EXCEPT
                    !.maxDrawdown =
                        maxDrawdownOf(buildEquityCurve(filteredTrades, deposits))],
     equityCurve |-> buildEquityCurve(filteredTrades, deposits),
     dailyPnls |-> aggregateDailyPnl(filteredTrades),
     netCapital |-> netCapitalOf(deposits, calculateMetrics(filteredTrades))]

\* The values the page derives from the records it holds: the metrics from
\* the trades alone, the displayed curve from the trades and the deposits.
derive(filteredTrades, deposits) ==
    [metrics |-> calculateMetrics(filteredTrades),
     equityCurve |-> buildEquityCurve(filteredTrades, deposits),
     dailyPnls |-> aggregateDailyPnl(filteredTrades),
     netCapital |-> netCapitalOf(deposits, calculateMetrics(filteredTrades))]

\* The filters of the page: "all" and "" leave a field unfiltered.
defaultFilters ==
    [asset |-> "all", side |-> "all", outcome |-> "all",
     dateFrom |-> "", dateTo |-> ""]

\* The callback of trades.filter: whether a trade passes the filters.
passesFilters(trade, filters) ==
    /\ filters.asset # "all" => trade.asset = filters.asset
    /\ filters.side # "all" => trade.side = filters.side
    /\ filters.outcome # "all" => trade.outcome = filters.outcome
    /\ filters.dateFrom # "" => parseISO(trade.date) >= parseISO(filters.dateFrom)
    /\ filters.dateTo # "" => parseISO(trade.date) <= parseISO(filters.dateTo)

\* The comparator of the list's sort: by date or by result, negated when
\* the direction is descending.
compareTrades(a, b, sortBy, sortDir) ==
    LET diff == IF sortBy = "date"
                THEN parseISO(a.date) - parseISO(b.date)
                ELSE calculatePnl(a) - calculatePnl(b)
    IN  IF sortDir = "asc" THEN diff ELSE 0 - diff

\* One insertion of the stable sort under compareTrades.
RECURSIVE insertTrade(_, _, _, _)
insertTrade(sorted, t, sortBy, sortDir) ==
    IF sorted = <<>> THEN <<t>>
    ELSE LET lastTrade == sorted[Len(sorted)]
             front == SubSeq(sorted, 1, Len(sorted) - 1)
         IN  IF compareTrades(lastTrade, t, sortBy, sortDir) > 0
             THEN Append(insertTrade(front, t, sortBy, sortDir), lastTrade)
             ELSE Append(sorted, t)

RECURSIVE sortTrades(_, _, _)
sortTrades(list, sortBy, sortDir) ==
    IF list = <<>> THEN <<>>
    ELSE insertTrade(sortTrades(SubSeq(list, 1, Len(list) - 1), sortBy, sortDir),
                     list[Len(list)], sortBy, sortDir)

\* filteredTrades that keeps the list order of the trades it lets through.
filteredTradesUnsorted(list, filters, sortBy, sortDir) ==
    SelectSeq(list, LAMBDA t : passesFilters(t, filters))

\* The filteredTrades memo: trades.filter(...).sort(...).
filteredTradesOf(list, filters, sortBy, sortDir) ==
    sortTrades(SelectSeq(list, LAMBDA t : passesFilters(t, filters)),
               sortBy, sortDir)

\* ------------------------------------------------------------ state machine

VARIABLES
    trades,       \* the Trade records the caller holds, in list order
    deposits,     \* the CashMove records the caller holds, in list order
    metrics,      \* calculateMetrics of the trades held
    equityCurve,  \* buildEquityCurve of the trades and deposits held
    dailyPnls,    \* aggregateDailyPnl of the trades held
    arg,          \* the trade handed to a single calculatePnl call
    ret,          \* <<>> before that call, <<its result>> after it
    inTrades,     \* the caller's trades array handed to an engine call
    inDeposits,   \* the caller's deposits array handed to an engine call
    pc,           \* the position of the running call, "idle" between calls
    callee,       \* the engine function called last
    entries,      \* buildEquityCurve's local array of { date, delta }
    equity,       \* buildEquityCurve's accumulator
    out,          \* the value the last finished call returned
    last,         \* per engine function, <<the value it returned last>>
    prevOut,      \* what last held for the callee before its latest return
    netCapital,   \* the page's netCapital: total deposits plus net result
    filters,      \* the page's filters
    sortBy,       \* the list's sort key, "date" or "pnl"
    sortDir,      \* the list's sort direction, "asc" or "desc"
    state,        \* the page's local state { trades, deposits } (the hook's state)
    session,      \* the page's session, "none" when signed out
    supabaseConfigured, \* whether the Supabase keys are present
    errorRemote,  \* the page's errorRemote, "null" or a message
    loadingRemote, \* the page's loadingRemote flag
    remote,       \* the rows of the user's Supabase tables
    nextId,       \* the id the next inserted row receives
    inflight,     \* the remote requests awaited by a handler
    stored,       \* the localStorage item under the hook's key
    hydrated,     \* the hook's hydrated flag
    rendered,     \* the state and hydrated values of the committed render
    effects,      \* the hook's effects scheduled by that render, in order
    lastWrite     \* how the latest localStorage.setItem of the hook ended

callVars == <<inTrades, inDeposits, pc, callee, entries, equity, out, last, prevOut>>

viewVars == <<filters, sortBy, sortDir>>

pageVars == <<state, session, supabaseConfigured, errorRemote, loadingRemote,
              remote, nextId, inflight>>

hookVars == <<stored, hydrated, rendered, effects, lastWrite>>

vars == <<trades, deposits, metrics, equityCurve, dailyPnls, arg, ret,
          inTrades, inDeposits, pc, callee, entries, equity, out, last, prevOut,
          netCapital, filters, sortBy, sortDir,
          state, session, supabaseConfigured, errorRemote, loadingRemote,
          remote, nextId, inflight,
          stored, hydrated, rendered, effects, lastWrite>>

\* A Trade row of a list: the fields without a computational role carry the
\* values of the entry form's template.
TradeRow(date, outcome, amount) ==
    [id |-> 1, date |-> date, asset |-> "EURUSD", side |-> "long",
     outcome |-> outcome, amount |-> amount, note |-> ""]

DepositRow(date, amount) == [id |-> 1, date |-> date, amount |-> amount]

TradeRows == {TradeRow(d, o, a) : d \in Dates, o \in Outcomes, a \in Amounts}
DepositRows == {DepositRow(d, a) : d \in Dates, a \in DepositAmounts}

\* Every list over S of length n.
ListsOfLen(S, n) == [1..n -> S]

\* Every trade a single calculatePnl call can be handed.
TradeArgs ==
    [id : Ids, date : Dates, asset : Assets, side : Sides,
     outcome : Outcomes \cup OtherOutcomes, amount : PnlAmounts, note : Notes]

\* The derived values follow the records: every change of the record set
\* re-invokes the engine.
Derived(ts, ds) ==
    \E derived \in {derive(ts, ds)} :
        /\ metrics' = derived.metrics
        /\ equityCurve' = derived.equityCurve
        /\ dailyPnls' = derived.dailyPnls
        /\ netCapital' = derived.netCapital

InitRecords ==
    /\ trades = <<>>
    /\ deposits = <<>>
    /\ metrics = derive(<<>>, <<>>).metrics
    /\ equityCurve = derive(<<>>, <<>>).equityCurve
    /\ dailyPnls = derive(<<>>, <<>>).dailyPnls
    /\ netCapital = derive(<<>>, <<>>).netCapital

\* The list's controls as the page mounts.
InitView ==
    /\ filters = defaultFilters
    /\ sortBy = "date"
    /\ sortDir = "desc"

\* The empty local state, the default value of the page's hook.
emptyState == [trades |-> <<>>, deposits |-> <<>>]

\* The page as it mounts: no session, nothing awaited, nothing stored remotely.
InitRemote ==
    /\ state = emptyState
    /\ session = "none"
    /\ errorRemote = "null"
    /\ loadingRemote = TRUE
    /\ remote = emptyState
    /\ nextId = 1
    /\ inflight = {}

\* The hook once mounted and settled on an empty storage.
InitHydrated ==
    /\ stored = "none"
    /\ hydrated = TRUE
    /\ rendered = [state |-> emptyState, hydrated |-> TRUE]
    /\ effects = <<>>
    /\ lastWrite = "none"

\* No engine call has been made.
InitCalls ==
    /\ pc = "idle"
    /\ callee = "none"
    /\ entries = <<>>
    /\ equity = 0
    /\ out = <<>>
    /\ last = [fn \in {"buildEquityCurve", "calculateMetrics", "aggregateDailyPnl"}
                  |-> <<>>]
    /\ prevOut = <<>>

Init ==
    /\ InitRecords
    /\ arg = TradeRow("2024-01-01", "win", 1)
    /\ ret = <<>>
    /\ inTrades = <<>>
    /\ inDeposits = <<>>
    /\ InitCalls
    /\ InitView
    /\ InitRemote
    /\ supabaseConfigured = TRUE
    /\ InitHydrated

\* The rows found in storage when the page mounts replace the empty default:
\* any rows, in any list order, zero amounts included.
LoadRecords ==
    /\ trades = <<>>
    /\ deposits = <<>>
    /\ \E n \in 0..MaxEvents, m \in 0..MaxEvents :
          /\ n + m <= MaxEvents
          /\ n + m > 0
          /\ \E ts \in ListsOfLen(TradeRows, n), ds \in ListsOfLen(DepositRows, m) :
                /\ trades' = ts
                /\ deposits' = ds
                /\ Derived(ts, ds)
    /\ UNCHANGED <<arg, ret>>
    /\ UNCHANGED callVars
    /\ UNCHANGED <<viewVars, pageVars, hookVars>>

\* The add-trade form: a draft with a zero amount is not submitted; the new
\* row goes to the end of the list.
AddTrade ==
    /\ Len(trades) + Len(deposits) < MaxEvents
    /\ \E d \in Dates, o \in Outcomes, a \in Amounts \ {0} :
          /\ trades' = Append(trades, TradeRow(d, o, a))
          /\ Derived(trades', deposits)
    /\ UNCHANGED <<deposits, arg, ret>>
    /\ UNCHANGED callVars
    /\ UNCHANGED <<viewVars, pageVars, hookVars>>

\* The add-deposit form: a draft with a zero amount is not submitted; the new
\* row goes to the end of the list.
AddDeposit ==
    /\ Len(trades) + Len(deposits) < MaxEvents
    /\ \E d \in Dates, a \in DepositAmounts \ {0} :
          /\ deposits' = Append(deposits, DepositRow(d, a))
          /\ Derived(trades, deposits')
    /\ UNCHANGED <<trades, arg, ret>>
    /\ UNCHANGED callVars
    /\ UNCHANGED <<viewVars, pageVars, hookVars>>

Next == LoadRecords \/ AddTrade \/ AddDeposit

Spec == Init /\ [][Next]_vars

\* One call of calculatePnl on one trade.
InitPnl ==
    /\ InitRecords
    /\ arg \in TradeArgs
    /\ ret = <<>>
    /\ inTrades = <<>>
    /\ inDeposits = <<>>
    /\ InitCalls
    /\ InitView
    /\ InitRemote
    /\ supabaseConfigured = TRUE
    /\ InitHydrated

CallCalculatePnl ==
    /\ ret = <<>>
    /\ ret' = <<calculatePnl(arg)>>
    /\ UNCHANGED <<trades, deposits, metrics, equityCurve, dailyPnls, netCapital, arg>>
    /\ UNCHANGED callVars
    /\ UNCHANGED <<viewVars, pageVars, hookVars>>

NextPnl == CallCalculatePnl

SpecPnl == InitPnl /\ [][NextPnl]_vars

\* Engine calls followed statement by statement, on arrays the caller keeps.
InitCall ==
    /\ InitRecords
    /\ arg = TradeRow("2024-01-01", "win", 1)
    /\ ret = <<>>
    /\ \E n \in 0..MaxCallEvents, m \in 0..MaxCallEvents :
          /\ n + m <= MaxCallEvents
          /\ inTrades \in ListsOfLen(TradeRows, n)
          /\ inDeposits \in ListsOfLen(DepositRows, m)
    /\ InitCalls
    /\ InitView
    /\ InitRemote
    /\ supabaseConfigured = TRUE
    /\ InitHydrated

recordVars == <<trades, deposits, metrics, equityCurve, dailyPnls, netCapital, arg, ret>>

\* return r from the engine function fn.
Return(fn, r) ==
    /\ out' = r
    /\ prevOut' = last[fn]
    /\ last' = [last EXCEPT ![fn] = <<r>>]
    /\ pc' = "idle"

\* buildEquityCurve(inTrades, inDeposits): the two maps spread into a new
\* array.
CallBuildEquityCurve ==
    /\ pc = "idle"
    /\ callee' = "buildEquityCurve"
    /\ entries' = tradeEntries(inTrades) \o depositEntries(inDeposits)
    /\ pc' = "sort"
    /\ UNCHANGED <<inTrades, inDeposits, equity, out, last, prevOut>>
    /\ UNCHANGED recordVars
    /\ UNCHANGED <<viewVars, pageVars, hookVars>>

\* calculateMetrics(inTrades): the empty list returns at once; otherwise the
\* call reaches buildEquityCurve(trades), deposits defaulting to [].
CallCalculateMetrics ==
    /\ pc = "idle"
    /\ callee' = "calculateMetrics"
    /\ IF Len(inTrades) = 0
       THEN /\ Return("calculateMetrics", emptyMetrics)
            /\ UNCHANGED entries
       ELSE /\ entries' = tradeEntries(inTrades) \o depositEntries(<<>>)
            /\ pc' = "sort"
            /\ UNCHANGED <<out, last, prevOut>>
    /\ UNCHANGED <<inTrades, inDeposits, equity>>
    /\ UNCHANGED recordVars
    /\ UNCHANGED <<viewVars, pageVars, hookVars>>

\* SortEntries that sorts the caller's trades array as well.
SortEntriesAndTrades ==
    /\ pc = "sort"
    /\ entries' = sortEntries(entries)
    /\ inTrades' = sortEntries(inTrades)
    /\ pc' = "equity"
    /\ UNCHANGED <<inDeposits, callee, equity, out, last, prevOut>>
    /\ UNCHANGED recordVars
    /\ UNCHANGED <<viewVars, pageVars, hookVars>>

\* .sort(...): the new array is sorted in place.
SortEntries ==
    /\ pc = "sort"
    /\ entries' = sortEntries(entries)
    /\ pc' = "equity"
    /\ UNCHANGED <<inTrades, inDeposits, callee, equity, out, last, prevOut>>
    /\ UNCHANGED recordVars
    /\ UNCHANGED <<viewVars, pageVars, hookVars>>

\* InitEquity that leaves the accumulator at the value of the call before.
InitEquityKept ==
    /\ pc = "equity"
    /\ pc' = "walk"
    /\ UNCHANGED <<inTrades, inDeposits, callee, entries, equity, out, last, prevOut>>
    /\ UNCHANGED recordVars
    /\ UNCHANGED <<viewVars, pageVars, hookVars>>

\* let equity = 0
InitEquity ==
    /\ pc = "equity"
    /\ equity' = 0
    /\ pc' = "walk"
    /\ UNCHANGED <<inTrades, inDeposits, callee, entries, out, last, prevOut>>
    /\ UNCHANGED recordVars
    /\ UNCHANGED <<viewVars, pageVars, hookVars>>

\* entries.map(...): buildEquityCurve returns the points; calculateMetrics
\* goes on with them to its own return.  The local array is dropped.
WalkEntries ==
    /\ pc = "walk"
    /\ LET points == walkEquity(entries, equity)
       IN  /\ equity' = IF points = <<>> THEN equity
                        ELSE points[Len(points)].value
           /\ Return(callee, IF callee = "buildEquityCurve" THEN points
                             ELSE metricsWithCurve(inTrades, points))
    /\ entries' = <<>>
    /\ UNCHANGED <<inTrades, inDeposits, callee>>
    /\ UNCHANGED recordVars
    /\ UNCHANGED <<viewVars, pageVars, hookVars>>

\* aggregateDailyPnl(inTrades): a reduce into a new record.
CallAggregateDailyPnl ==
    /\ pc = "idle"
    /\ callee' = "aggregateDailyPnl"
    /\ Return("aggregateDailyPnl", aggregateDailyPnl(inTrades))
    /\ UNCHANGED <<inTrades, inDeposits, entries, equity>>
    /\ UNCHANGED recordVars
    /\ UNCHANGED <<viewVars, pageVars, hookVars>>

NextCall ==
    \/ CallBuildEquityCurve
    \/ CallCalculateMetrics
    \/ SortEntries
    \/ InitEquity
    \/ WalkEntries
    \/ CallAggregateDailyPnl

SpecCall == InitCall /\ [][NextCall]_vars

\* ------------------------------------------------- the page's list controls

\* The most records the page holds while its controls are exercised.
MaxViewEvents == 3

\* The outcome and amount of the rows the list is exercised with: a draft
\* with a zero amount is not sent.
ViewResults == {<<"win", 1>>, <<"win", 2>>, <<"loss", 1>>}

ViewTradeRows == {TradeRow(d, r[1], r[2]) : d \in Dates, r \in ViewResults}

ViewDepositRows == {DepositRow("2024-01-01", 3), DepositRow("2024-01-02", -1)}

FilterOutcomes == {"all"} \cup Outcomes

\* The page's memos: the engine works on filteredTrades.
Displayed(ts, ds, fs, by, dir) == Derived(filteredTradesOf(ts, fs, by, dir), ds)

\* The page holding any bounded records, its controls untouched.
InitList ==
    /\ \E n \in 0..MaxViewEvents, m \in 0..MaxViewEvents :
          /\ n + m <= MaxViewEvents
          /\ trades \in ListsOfLen(ViewTradeRows, n)
          /\ deposits \in ListsOfLen(ViewDepositRows, m)
    /\ InitView
    /\ LET shown == derive(filteredTradesOf(trades, filters, sortBy, sortDir),
                           deposits)
       IN  /\ metrics = shown.metrics
           /\ equityCurve = shown.equityCurve
           /\ dailyPnls = shown.dailyPnls
           /\ netCapital = shown.netCapital
    /\ arg = TradeRow("2024-01-01", "win", 1)
    /\ ret = <<>>
    /\ inTrades = <<>>
    /\ inDeposits = <<>>
    /\ InitCalls
    /\ InitRemote
    /\ supabaseConfigured = TRUE
    /\ InitHydrated

toggle(d) == IF d = "asc" THEN "desc" ELSE "asc"

\* The "date" sort button: setSortBy("date") and the direction toggled.
ClickSortDate ==
    /\ sortBy' = "date"
    /\ sortDir' = toggle(sortDir)
    /\ Displayed(trades, deposits, filters, sortBy', sortDir')
    /\ UNCHANGED <<trades, deposits, arg, ret, filters>>
    /\ UNCHANGED <<callVars, pageVars, hookVars>>

\* The "pnl" sort button: setSortBy("pnl") and the direction toggled.
ClickSortPnl ==
    /\ sortBy' = "pnl"
    /\ sortDir' = toggle(sortDir)
    /\ Displayed(trades, deposits, filters, sortBy', sortDir')
    /\ UNCHANGED <<trades, deposits, arg, ret, filters>>
    /\ UNCHANGED <<callVars, pageVars, hookVars>>

\* The outcome select of the filters.
SetFilterOutcome ==
    /\ \E value \in FilterOutcomes :
          filters' = [filters EXCEPT !.outcome = value]
    /\ Displayed(trades, deposits, filters', sortBy, sortDir)
    /\ UNCHANGED <<trades, deposits, arg, ret, sortBy, sortDir>>
    /\ UNCHANGED <<callVars, pageVars, hookVars>>

handleResetFilters ==
    /\ filters' = defaultFilters
    /\ Displayed(trades, deposits, filters', sortBy, sortDir)
    /\ UNCHANGED <<trades, deposits, arg, ret, sortBy, sortDir>>
    /\ UNCHANGED <<callVars, pageVars, hookVars>>

NextView == ClickSortDate \/ ClickSortPnl \/ SetFilterOutcome \/ handleResetFilters

SpecView == InitList /\ [][NextView]_vars

\* ------------------------------------------------ the page's remote records

\* The most rows the tables are given, and the most requests awaited at once.
MaxInserts == 1
MaxInFlight == 2

Tables == {"trades", "deposits"}

\* The row the table returns for the record a form's handler sends: the
\* draft's fields and the id the table gives it.
InsertedRow(table, id) ==
    IF table = "trades"
    THEN [TradeRow("2024-01-01", "win", 1) EXCEPT !.id = id]
    ELSE [DepositRow("2024-01-01", 3) EXCEPT !.id = id]

\* The messages the handlers give setErrorRemote (accents left out).
ConnectMessage(table) ==
    IF table = "trades"
    THEN "Connectez-vous pour enregistrer un trade."
    ELSE "Connectez-vous pour enregistrer un depot."

InsertMessage(table) ==
    IF table = "trades"
    THEN "Impossible d'enregistrer le trade (Supabase)"
    ELSE "Impossible d'enregistrer le depot (Supabase)"

DeleteMessage(table) ==
    IF table = "trades"
    THEN "Impossible de supprimer le trade (Supabase)"
    ELSE "Impossible de supprimer le depot (Supabase)"

ReadMessage == "Lecture Supabase impossible, utilisation des donnees locales."

\* A request a handler awaits: status "sent" until the service has answered,
\* then "ok" (with the data answered), "error", or "empty" (neither error nor
\* data).
Request(op, table, id) ==
    [op |-> op, table |-> table, id |-> id, status |-> "sent", data |-> <<>>]

Answered(r, status, data) == [r EXCEPT !.status = status, !.data = data]

\* list.filter((x) => x.id !== id)
removeById(list, id) == SelectSeq(list, LAMBDA x : x.id # id)

IdsOf(list) == {list[i].id : i \in 1..Len(list)}

\* The page as it mounts, with or without the Supabase keys.
InitPage ==
    /\ InitRecords
    /\ arg = TradeRow("2024-01-01", "win", 1)
    /\ ret = <<>>
    /\ inTrades = <<>>
    /\ inDeposits = <<>>
    /\ InitCalls
    /\ InitView
    /\ InitRemote
    /\ supabaseConfigured \in BOOLEAN
    /\ InitHydrated

\* The call of a remote operation that a handler then awaits.
Await(r) ==
    /\ r \notin inflight
    /\ Cardinality(inflight) < MaxInFlight
    /\ inflight' = inflight \cup {r}

\* handleSubmit and handleDeposit with a valid draft: without a session or
\* without the keys the handler sets errorRemote and returns; otherwise run()
\* sends the insert and awaits it.
SubmitForm(table) ==
    /\ IF session = "none" \/ ~supabaseConfigured
       THEN /\ errorRemote' = ConnectMessage(table)
            /\ UNCHANGED inflight
       ELSE /\ Await(Request("insert", table, 0))
            /\ UNCHANGED errorRemote
    /\ UNCHANGED <<state, session, supabaseConfigured, loadingRemote, remote, nextId>>
    /\ UNCHANGED <<recordVars, callVars, viewVars, hookVars>>

handleSubmit == SubmitForm("trades")

handleDeposit == SubmitForm("deposits")

\* The service answers an insert: the row stored and returned, an error, or
\* neither error nor row.
ServerInsert ==
    \E r \in inflight :
        /\ r.op = "insert"
        /\ r.status = "sent"
        /\ \/ /\ nextId <= MaxInserts
              /\ remote' = [remote EXCEPT
                              ![r.table] = Append(@, InsertedRow(r.table, nextId))]
              /\ nextId' = nextId + 1
              /\ inflight' = (inflight \ {r})
                    \cup {Answered(r, "ok", <<InsertedRow(r.table, nextId)>>)}
           \/ /\ \E status \in {"error", "empty"} :
                    inflight' = (inflight \ {r}) \cup {Answered(r, status, <<>>)}
              /\ UNCHANGED <<remote, nextId>>
        /\ UNCHANGED <<state, session, supabaseConfigured, errorRemote, loadingRemote>>
        /\ UNCHANGED <<recordVars, callVars, viewVars, hookVars>>

\* run() after its await: on an error or no data errorRemote is set, else
\* the row returned is appended to its list.
InsertResponse ==
    \E r \in inflight :
        /\ r.op = "insert"
        /\ r.status # "sent"
        /\ inflight' = inflight \ {r}
        /\ IF r.status # "ok"
           THEN /\ errorRemote' = InsertMessage(r.table)
                /\ UNCHANGED state
           ELSE /\ state' = [state EXCEPT ![r.table] = Append(@, r.data[1])]
                /\ UNCHANGED errorRemote
        /\ UNCHANGED <<session, supabaseConfigured, loadingRemote, remote, nextId>>
        /\ UNCHANGED <<recordVars, callVars, viewVars, hookVars>>

\* deleteTrade and deleteDeposit on a row of the list: with a session and
\* the keys the delete is sent and awaited, otherwise the row is removed from
\* the local state at once.
DeleteRow(table) ==
    /\ \E id \in IdsOf(state[table]) :
          IF session # "none" /\ supabaseConfigured
          THEN /\ Await(Request("delete", table, id))
               /\ UNCHANGED state
          ELSE /\ state' = [state EXCEPT ![table] = removeById(@, id)]
               /\ UNCHANGED inflight
    /\ UNCHANGED <<session, supabaseConfigured, errorRemote, loadingRemote, remote, nextId>>
    /\ UNCHANGED <<recordVars, callVars, viewVars, hookVars>>

deleteTrade == DeleteRow("trades")

deleteDeposit == DeleteRow("deposits")

\* The service answers a delete: the rows of that id removed, or an error.
ServerDelete ==
    \E r \in inflight :
        /\ r.op = "delete"
        /\ r.status = "sent"
        /\ \/ /\ remote' = [remote EXCEPT ![r.table] = removeById(@, r.id)]
              /\ inflight' = (inflight \ {r}) \cup {Answered(r, "ok", <<>>)}
           \/ /\ inflight' = (inflight \ {r}) \cup {Answered(r, "error", <<>>)}
              /\ UNCHANGED remote
        /\ UNCHANGED <<state, session, supabaseConfigured, errorRemote, loadingRemote, nextId>>
        /\ UNCHANGED <<recordVars, callVars, viewVars, hookVars>>

\* DeleteResponse that removes the row whatever the service answered.
DeleteResponseIgnoringError ==
    \E r \in inflight :
        /\ r.op = "delete"
        /\ r.status # "sent"
        /\ inflight' = inflight \ {r}
        /\ state' = [state EXCEPT ![r.table] = removeById(@, r.id)]
        /\ errorRemote' = IF r.status = "error" THEN DeleteMessage(r.table)
                          ELSE errorRemote
        /\ UNCHANGED <<session, supabaseConfigured, loadingRemote, remote, nextId>>
        /\ UNCHANGED <<recordVars, callVars, viewVars, hookVars>>

\* deleteTrade and deleteDeposit after their await: on an error errorRemote
\* is set, else the rows of that id leave the list.
DeleteResponse ==
    \E r \in inflight :
        /\ r.op = "delete"
        /\ r.status # "sent"
        /\ inflight' = inflight \ {r}
        /\ IF r.status = "error"
           THEN /\ errorRemote' = DeleteMessage(r.table)
                /\ UNCHANGED state
           ELSE /\ state' = [state EXCEPT ![r.table] = removeById(@, r.id)]
                /\ UNCHANGED errorRemote
        /\ UNCHANGED <<session, supabaseConfigured, loadingRemote, remote, nextId>>
        /\ UNCHANGED <<recordVars, callVars, viewVars, hookVars>>

handleClear ==
    /\ state' = emptyState
    /\ UNCHANGED <<session, supabaseConfigured, errorRemote, loadingRemote,
                   remote, nextId, inflight>>
    /\ UNCHANGED <<recordVars, callVars, viewVars, hookVars>>

\* The auth listener receives a session (sign-in, restored or refreshed
\* session): setSession, and the effect on [session] runs loadRemote up to
\* its await. A fetch already awaited and not yet answered stands for both.
onAuthStateChange ==
    /\ supabaseConfigured
    /\ session' = "user"
    /\ loadingRemote' = TRUE
    /\ errorRemote' = "null"
    /\ \/ Await(Request("select", "all", 0))
       \/ /\ Request("select", "all", 0) \in inflight
          /\ UNCHANGED inflight
    /\ UNCHANGED <<state, supabaseConfigured, remote, nextId>>
    /\ UNCHANGED <<recordVars, callVars, viewVars, hookVars>>

\* The service answers the two selects of loadRemote: the rows of both
\* tables as they are then, or an error.
ServerSelect ==
    \E r \in inflight :
        /\ r.op = "select"
        /\ r.status = "sent"
        /\ \/ inflight' = (inflight \ {r}) \cup {Answered(r, "ok", <<remote>>)}
           \/ inflight' = (inflight \ {r}) \cup {Answered(r, "error", <<>>)}
        /\ UNCHANGED <<state, session, supabaseConfigured, errorRemote,
                       loadingRemote, remote, nextId>>
        /\ UNCHANGED <<recordVars, callVars, viewVars, hookVars>>

\* loadRemote after its await: on an error errorRemote is set and the local
\* state kept, else the local state becomes the rows answered.
LoadResponse ==
    \E r \in inflight :
        /\ r.op = "select"
        /\ r.status # "sent"
        /\ inflight' = inflight \ {r}
        /\ loadingRemote' = FALSE
        /\ IF r.status = "error"
           THEN /\ errorRemote' = ReadMessage
                /\ UNCHANGED state
           ELSE /\ state' = r.data[1]
                /\ UNCHANGED errorRemote
        /\ UNCHANGED <<session, supabaseConfigured, remote, nextId>>
        /\ UNCHANGED <<recordVars, callVars, viewVars, hookVars>>

\* handleSignOut up to its await; without the keys it clears the local state
\* at once.
handleSignOut ==
    /\ IF supabaseConfigured
       THEN /\ Await(Request("signOut", "all", 0))
            /\ UNCHANGED state
       ELSE /\ state' = emptyState
            /\ UNCHANGED inflight
    /\ UNCHANGED <<session, supabaseConfigured, errorRemote, loadingRemote, remote, nextId>>
    /\ UNCHANGED <<recordVars, callVars, viewVars, hookVars>>

\* auth.signOut() resolves: the session removed and the listener told, or
\* an error with the session kept; handleSignOut then clears the local state.
SignOutResponse ==
    \E r \in inflight :
        /\ r.op = "signOut"
        /\ inflight' = inflight \ {r}
        /\ \/ session' = "none"
           \/ UNCHANGED session
        /\ state' = emptyState
        /\ UNCHANGED <<supabaseConfigured, errorRemote, loadingRemote, remote, nextId>>
        /\ UNCHANGED <<recordVars, callVars, viewVars, hookVars>>

NextPage ==
    \/ handleSubmit
    \/ handleDeposit
    \/ ServerInsert
    \/ InsertResponse
    \/ deleteTrade
    \/ deleteDeposit
    \/ ServerDelete
    \/ DeleteResponse
    \/ handleClear
    \/ onAuthStateChange
    \/ ServerSelect
    \/ LoadResponse
    \/ handleSignOut
    \/ SignOutResponse

SpecPage == InitPage /\ [][NextPage]_vars

\* --------------------------------------------------- useLocalStorageState

\* The values the hook's state takes: the default and two saved states.
HookStates ==
    {emptyState,
     [trades |-> <<InsertedRow("trades", 1)>>, deposits |-> <<>>],
     [trades |-> <<InsertedRow("trades", 1)>>,
      deposits |-> <<InsertedRow("deposits", 2)>>]}

\* JSON.stringify(state): the text of a value.
JSONstringify(value) == [kind |-> "json", value |-> value]

\* JSON.parse of a text that JSONstringify produced.
JSONparse(item) == item.value

\* What localStorage can hold under the key as the hook mounts: nothing
\* (getItem gives null), the empty string, a text JSON.parse throws on, or
\* the text of a value.
StoredItems ==
    {[kind |-> k, value |-> emptyState] : k \in {"none", "empty", "garbage"}}
        \cup {JSONstringify(v) : v \in HookStates}

\* The component's first render: the default value, hydrated false, both
\* effects scheduled in the order of their declaration.
InitHook ==
    /\ InitRecords
    /\ arg = TradeRow("2024-01-01", "win", 1)
    /\ ret = <<>>
    /\ inTrades = <<>>
    /\ inDeposits = <<>>
    /\ InitCalls
    /\ InitView
    /\ InitRemote
    /\ supabaseConfigured = TRUE
    /\ stored \in StoredItems
    /\ hydrated = FALSE
    /\ rendered = [state |-> emptyState, hydrated |-> FALSE]
    /\ effects = <<"read", "write">>
    /\ lastWrite = "none"

\* The first effect: getItem and JSON.parse, either of which may throw;
\* setState only for a non-empty item that parses; setHydrated(true) in the
\* finally.
ReadEffect ==
    /\ effects # <<>>
    /\ Head(effects) = "read"
    /\ effects' = Tail(effects)
    /\ \E getItemThrows \in BOOLEAN :
          IF ~getItemThrows /\ stored.kind = "json"
          THEN state' = JSONparse(stored)
          ELSE UNCHANGED state
    /\ hydrated' = TRUE
    /\ UNCHANGED <<stored, rendered, lastWrite>>
    /\ UNCHANGED <<session, supabaseConfigured, errorRemote, loadingRemote,
                   remote, nextId, inflight>>
    /\ UNCHANGED <<recordVars, callVars, viewVars>>

\* WriteEffect without the hydrated guard.
WriteEffectUnguarded ==
    /\ effects # <<>>
    /\ Head(effects) = "write"
    /\ effects' = Tail(effects)
    /\ \E setItemThrows \in BOOLEAN :
          IF setItemThrows
          THEN /\ lastWrite' = "threw"
               /\ UNCHANGED stored
          ELSE /\ lastWrite' = "ok"
               /\ stored' = JSONstringify(rendered.state)
    /\ UNCHANGED <<state, hydrated, rendered>>
    /\ UNCHANGED <<session, supabaseConfigured, errorRemote, loadingRemote,
                   remote, nextId, inflight>>
    /\ UNCHANGED <<recordVars, callVars, viewVars>>

\* The second effect, with the state and hydrated of the render that
\* scheduled it: nothing while hydrated is false, else setItem, which may
\* throw.
WriteEffect ==
    /\ effects # <<>>
    /\ Head(effects) = "write"
    /\ effects' = Tail(effects)
    /\ IF ~rendered.hydrated
       THEN UNCHANGED <<stored, lastWrite>>
       ELSE \E setItemThrows \in BOOLEAN :
               IF setItemThrows
               THEN /\ lastWrite' = "threw"
                    /\ UNCHANGED stored
               ELSE /\ lastWrite' = "ok"
                    /\ stored' = JSONstringify(rendered.state)
    /\ UNCHANGED <<state, hydrated, rendered>>
    /\ UNCHANGED <<session, supabaseConfigured, errorRemote, loadingRemote,
                   remote, nextId, inflight>>
    /\ UNCHANGED <<recordVars, callVars, viewVars>>

\* A render after state or hydrated changed, the effects of the previous
\* render having run: the second effect's dependencies changed, the first
\* effect's ([key]) did not.
Render ==
    /\ effects = <<>>
    /\ rendered # [state |-> state, hydrated |-> hydrated]
    /\ rendered' = [state |-> state, hydrated |-> hydrated]
    /\ effects' = <<"write">>
    /\ UNCHANGED <<state, hydrated, stored, lastWrite>>
    /\ UNCHANGED <<session, supabaseConfigured, errorRemote, loadingRemote,
                   remote, nextId, inflight>>
    /\ UNCHANGED <<recordVars, callVars, viewVars>>

\* The caller sets the state.
setState ==
    /\ \E value \in HookStates : state' = value
    /\ UNCHANGED <<hydrated, stored, rendered, effects, lastWrite>>
    /\ UNCHANGED <<session, supabaseConfigured, errorRemote, loadingRemote,
                   remote, nextId, inflight>>
    /\ UNCHANGED <<recordVars, callVars, viewVars>>

NextHook == ReadEffect \/ WriteEffect \/ Render \/ setState

SpecHook == InitHook /\ [][NextHook]_vars

\* ------------------------------------------------------------------ claims

\* The events handed to buildEquityCurve, numbered in the order of the
\* concatenation: the trades first, then the deposits.
NumEvents == Len(trades) + Len(deposits)

EventDate(i) ==
    IF i <= Len(trades) THEN trades[i].date ELSE deposits[i - Len(trades)].date

EventDelta(i) ==
    IF i <= Len(trades) THEN calculatePnl(trades[i])
    ELSE deposits[i - Len(trades)].amount

\* The place of event i in chronological order with ties kept in the order
\* of the concatenation.
Rank(i) ==
    1 + Cardinality({j \in 1..NumEvents :
            \/ parseISO(EventDate(j)) < parseISO(EventDate(i))
            \/ parseISO(EventDate(j)) = parseISO(EventDate(i)) /\ j < i})

\* f[1] + ... + f[n]
RECURSIVE SumTo(_, _)
SumTo(f, n) == IF n = 0 THEN 0 ELSE SumTo(f, n - 1) + f[n]

\* C1: calculatePnl of a trade whose outcome is win or loss is the amount
\* for a win and minus the amount for a loss, and is the same whatever the
\* trade's id, date, asset, side and note.
C1_PnlSignedByOutcome ==
    (ret # <<>> /\ arg.outcome \in Outcomes) =>
        /\ ret[1] = (IF arg.outcome = "win" THEN arg.amount ELSE 0 - arg.amount)
        /\ \A i \in Ids, d \in Dates, a \in Assets, s \in Sides, n \in Notes :
              calculatePnl([arg EXCEPT !.id = i, !.date = d, !.asset = a,
                                       !.side = s, !.note = n]) = ret[1]

\* A losing short trade stored with a negative amount has been evaluated.
C1_Witness ==
    /\ ret = <<2>>
    /\ arg.outcome = "loss"
    /\ arg.amount = -2
    /\ arg.side = "short"

\* C2: the equity curve has one point per trade and per deposit, and is
\* empty when there is neither.
C2_CurveLength ==
    /\ Len(equityCurve) = Len(trades) + Len(deposits)
    /\ (trades = <<>> /\ deposits = <<>>) => equityCurve = <<>>

\* Two trades and a withdrawal give three points.
C2_Witness ==
    /\ Len(trades) = 2
    /\ Len(deposits) = 1
    /\ deposits[1].amount < 0
    /\ Len(equityCurve) = 3

\* C3: the value of the last point of a non-empty curve is the sum of
\* calculatePnl over the trades plus the sum of the deposits' amounts.
C3_FinalValue ==
    equityCurve # <<>> =>
        equityCurve[Len(equityCurve)].value =
            SumTo([i \in 1..Len(trades) |-> calculatePnl(trades[i])], Len(trades))
            + SumTo([i \in 1..Len(deposits) |-> deposits[i].amount], Len(deposits))

\* Trades out of date order, a loss among them, and a deposit.
C3_Witness ==
    /\ Len(trades) = 2
    /\ Len(deposits) = 1
    /\ parseISO(trades[1].date) > parseISO(trades[2].date)
    /\ trades[1].outcome = "loss"
    /\ trades[1].amount = 2
    /\ trades[2].outcome = "win"
    /\ trades[2].amount = 1
    /\ deposits[1].amount = 3
    /\ equityCurve[3].value = 2

\* C4: point i carries the delta of the i-th event in sorted order as its
\* pnl and the sum of the first i deltas as its value: the first value is
\* the first pnl and each later value is the previous one plus its pnl.
C4_RunningSum ==
    /\ \A j \in 1..NumEvents :
          Rank(j) \in 1..Len(equityCurve) /\ equityCurve[Rank(j)].pnl = EventDelta(j)
    /\ \A i \in 1..Len(equityCurve) :
          /\ equityCurve[i].value =
                SumTo([k \in 1..Len(equityCurve) |-> equityCurve[k].pnl], i)
          /\ i = 1 => equityCurve[i].value = equityCurve[i].pnl
          /\ i > 1 => equityCurve[i].value - equityCurve[i - 1].value = equityCurve[i].pnl

\* A curve of three points whose values differ from its deltas.
C4_Witness ==
    /\ Len(equityCurve) = 3
    /\ equityCurve[1].pnl = 2
    /\ equityCurve[2].pnl = -1
    /\ equityCurve[3].pnl = 3
    /\ equityCurve[3].value = 4

\* C5: the curve's dates never decrease, and events of one date keep the
\* order of the concatenation (trades before deposits, each in list order).
C5_StableChronological ==
    /\ \A i \in 1..Len(equityCurve) - 1 :
          parseISO(equityCurve[i].date) <= parseISO(equityCurve[i + 1].date)
    /\ \A j \in 1..NumEvents :
          /\ Rank(j) \in 1..Len(equityCurve)
          /\ equityCurve[Rank(j)].date = EventDate(j)
          /\ equityCurve[Rank(j)].pnl = EventDelta(j)

\* Two trades of the later day given before a deposit of the earlier day:
\* the deposit moves to the front and the trades keep their list order.
C5_Witness ==
    /\ Len(trades) = 2
    /\ Len(deposits) = 1
    /\ trades[1].date = trades[2].date
    /\ parseISO(deposits[1].date) < parseISO(trades[1].date)
    /\ calculatePnl(trades[1]) = -1
    /\ calculatePnl(trades[2]) = 2
    /\ deposits[1].amount = 3
    /\ equityCurve[1].pnl = 3
    /\ equityCurve[2].pnl = -1
    /\ equityCurve[3].pnl = 2

\* The greatest element of a non-empty set of integers.
SetMax(S) == CHOOSE x \in S : \A y \in S : y <= x

\* The equity curve of the trades alone.
TradeCurve == buildEquityCurve(trades, <<>>)

\* The sum of the positive (sign = 1) or of the negative (sign = -1) results
\* of the trades held.
SumOfSign(sign) ==
    SumTo([i \in 1..Len(trades) |->
              IF calculatePnl(trades[i]) * sign > 0 THEN calculatePnl(trades[i]) ELSE 0],
          Len(trades))

\* C6: maxDrawdown is the greatest (running peak - value) over the points of
\* the trade-only curve, the running peak being the greatest of 0 and the
\* values up to and including the point; a curve that starts below 0 has a
\* drawdown of at least that depth.
C6_MaxDrawdownFromPeakZero ==
    LET PeakAt(i) == SetMax({0} \cup {TradeCurve[k].value : k \in 1..i})
    IN  /\ metrics.maxDrawdown =
              SetMax({0} \cup {PeakAt(i) - TradeCurve[i].value :
                                  i \in 1..Len(TradeCurve)})
        /\ (TradeCurve # <<>> /\ TradeCurve[1].value < 0) =>
              metrics.maxDrawdown >= 0 - TradeCurve[1].value

\* A loss of 2 followed by a win of 1: the curve never rises above 0 and the
\* drawdown is 2.
C6_Witness ==
    /\ Len(trades) = 2
    /\ Len(TradeCurve) = 2
    /\ TradeCurve[1].value = -2
    /\ TradeCurve[2].value = -1
    /\ metrics.maxDrawdown = 2

\* C7: maxDrawdown is never negative, and is 0 when no trade has a negative
\* result.
C7_MaxDrawdownNonNegative ==
    /\ metrics.maxDrawdown >= 0
    /\ (\A i \in 1..Len(trades) : calculatePnl(trades[i]) >= 0) =>
          metrics.maxDrawdown = 0

\* Three trades without a loser, a zero result among them.
C7_Witness ==
    /\ Len(trades) = 3
    /\ \A i \in 1..3 : calculatePnl(trades[i]) >= 0
    /\ \E i \in 1..3 : calculatePnl(trades[i]) = 0
    /\ \E i \in 1..3 : calculatePnl(trades[i]) = 2
    /\ metrics.maxDrawdown = 0

\* C8: a step that leaves the trades as they are leaves every field of the
\* metrics as it is, whatever it does to the deposits.
C8_MetricsIgnoreDeposits ==
    [][trades' = trades => metrics' = metrics]_vars

\* A deposit of 3 followed by a losing trade of 1: the displayed curve is
\* 3, 2 and the drawdown is 1.
C8_Witness ==
    /\ Len(deposits) = 1
    /\ Len(trades) = 1
    /\ deposits[1].amount = 3
    /\ parseISO(deposits[1].date) < parseISO(trades[1].date)
    /\ calculatePnl(trades[1]) = -1
    /\ equityCurve[1].value = 3
    /\ equityCurve[2].value = 2
    /\ metrics.maxDrawdown = 1

\* C9: profitFactor is the sum of the positive results over the magnitude of
\* the sum of the negative ones when there is at least one of each, null
\* otherwise, and never Infinity or NaN.
C9_ProfitFactor ==
    LET pf == metrics.profitFactor
        hasWinner == \E i \in 1..Len(trades) : calculatePnl(trades[i]) > 0
        hasLoser == \E i \in 1..Len(trades) : calculatePnl(trades[i]) < 0
    IN  /\ pf.kind \in {"num", "null"}
        /\ (hasWinner /\ hasLoser) =>
              /\ pf.kind = "num"
              /\ pf.d > 0
              /\ pf.n * Abs(SumOfSign(-1)) = pf.d * SumOfSign(1)
        /\ ~(hasWinner /\ hasLoser) => pf = Null

\* Two winners, one loser: profit factor 3/2.
C9_Witness ==
    /\ Len(trades) = 3
    /\ SumOfSign(1) = 3
    /\ SumOfSign(-1) = -2
    /\ metrics.profitFactor = [kind |-> "num", n |-> 3, d |-> 2]

\* C10: riskReward is averageWin over the magnitude of averageLoss when both
\* are non-null and averageLoss is not 0, null otherwise, and never the
\* result of a division by zero.
C10_RiskReward ==
    LET rr == metrics.riskReward
        aw == metrics.averageWin
        al == metrics.averageLoss
    IN  /\ rr.kind \in {"num", "null"}
        /\ IF aw # Null /\ al # Null /\ al # Num(0, 1)
           THEN /\ IsNum(aw) /\ IsNum(al) /\ IsNum(rr)
                /\ rr.d > 0
                /\ rr.n * aw.d * Abs(al.n) = rr.d * aw.n * al.d
           ELSE rr = Null

\* Wins of 2 and 1 and a loss of 2: average win 3/2, average loss -2,
\* risk/reward 3/4.
C10_Witness ==
    /\ Len(trades) = 3
    /\ metrics.averageWin = [kind |-> "num", n |-> 3, d |-> 2]
    /\ metrics.averageLoss = [kind |-> "num", n |-> -2, d |-> 1]
    /\ metrics.riskReward = [kind |-> "num", n |-> 3, d |-> 4]

\* The number of trades held whose result has the given sign.
CountOfSign(sign) ==
    Cardinality({i \in 1..Len(trades) : calculatePnl(trades[i]) * sign > 0})

\* C11: for an empty trade list the metrics are exactly the zero and null
\* values, and no field is the result of a division (0 / 0 is NaN).
C11_EmptyMetrics ==
    trades = <<>> =>
        /\ metrics.netPnl = 0
        /\ metrics.winRate = [kind |-> "num", n |-> 0, d |-> 1]
        /\ metrics.profitFactor = Null
        /\ metrics.riskReward = Null
        /\ metrics.maxDrawdown = 0
        /\ metrics.averageWin = Null
        /\ metrics.averageLoss = Null
        /\ metrics.totalTrades = 0

\* No trade is held while deposits are: the metrics have been recomputed on
\* an empty list.
C11_Witness ==
    /\ trades = <<>>
    /\ Len(deposits) = 2
    /\ metrics.totalTrades = 0
    /\ metrics.winRate.kind = "num"

\* C12: for a non-empty list winRate is 100 times the number of trades with
\* a positive result over the number of trades, so between 0 and 100, the
\* losers are the trades with a negative result, a zero result is in
\* neither, and totalTrades is the length of the list.
C12_PartitionAndWinRate ==
    trades # <<>> =>
        /\ metrics.totalTrades = Len(trades)
        /\ metrics.winRate.kind = "num"
        /\ metrics.winRate.d > 0
        /\ metrics.winRate.n * Len(trades) = metrics.winRate.d * 100 * CountOfSign(1)
        /\ metrics.winRate.n >= 0
        /\ metrics.winRate.n <= 100 * metrics.winRate.d
        /\ (metrics.averageWin = Null) <=> (CountOfSign(1) = 0)
        /\ (metrics.averageLoss = Null) <=> (CountOfSign(-1) = 0)
        /\ metrics.averageWin # Null =>
              metrics.averageWin.n * CountOfSign(1) = metrics.averageWin.d * SumOfSign(1)
        /\ metrics.averageLoss # Null =>
              metrics.averageLoss.n * CountOfSign(-1) = metrics.averageLoss.d * SumOfSign(-1)

\* One winner, one loser and one zero-amount trade: the win rate is 100/3.
C12_Witness ==
    /\ Len(trades) = 3
    /\ CountOfSign(1) = 1
    /\ CountOfSign(-1) = 1
    /\ \E i \in 1..3 : trades[i].amount = 0 /\ trades[i].outcome = "win"
    /\ metrics.winRate = [kind |-> "num", n |-> 100, d |-> 3]
    /\ metrics.totalTrades = 3

\* C13: averageWin is the mean of the positive results, or null without
\* one; averageLoss is the mean of the negative results and is then below
\* zero, or null without one.
C13_Averages ==
    LET aw == metrics.averageWin
        al == metrics.averageLoss
    IN  /\ IF CountOfSign(1) = 0 THEN aw = Null
           ELSE /\ IsNum(aw) /\ aw.d > 0
                /\ aw.n * CountOfSign(1) = aw.d * SumOfSign(1)
        /\ IF CountOfSign(-1) = 0 THEN al = Null
           ELSE /\ IsNum(al) /\ al.d > 0
                /\ al.n * CountOfSign(-1) = al.d * SumOfSign(-1)
                /\ al.n < 0

\* Losses of 1 and 2 and a win of 2: average loss -3/2, average win 2.
C13_Witness ==
    /\ Len(trades) = 3
    /\ metrics.averageLoss = [kind |-> "num", n |-> -3, d |-> 2]
    /\ metrics.averageWin = [kind |-> "num", n |-> 2, d |-> 1]

\* C14: netPnl is the sum of calculatePnl over every trade held.
C14_NetPnl ==
    metrics.netPnl =
        SumTo([i \in 1..Len(trades) |-> calculatePnl(trades[i])], Len(trades))

\* A win of 2, a loss of 1 and a zero result: net 1.
C14_Witness ==
    /\ Len(trades) = 3
    /\ CountOfSign(1) = 1
    /\ CountOfSign(-1) = 1
    /\ SumOfSign(1) = 2
    /\ SumOfSign(-1) = -1
    /\ metrics.netPnl = 1

\* The sum of calculatePnl over the trades held whose date is d.
DayTotal(d) ==
    SumTo([i \in 1..Len(trades) |->
              IF trades[i].date = d THEN calculatePnl(trades[i]) ELSE 0],
          Len(trades))

\* The sum of the values of a mapping.
RECURSIVE SumOfValues(_)
SumOfValues(f) ==
    IF DOMAIN f = {} THEN 0
    ELSE LET k == CHOOSE x \in DOMAIN f : TRUE
         IN  f[k] + SumOfValues([j \in (DOMAIN f) \ {k} |-> f[j]])

\* C15: the value mapped to a date is the sum of calculatePnl over the
\* trades of that date, whatever their order, and a step that leaves the
\* trades as they are (a deposit) leaves the mapping as it is.
C15_DailySums ==
    /\ [](\A d \in DOMAIN dailyPnls : dailyPnls[d] = DayTotal(d))
    /\ [][trades' = trades => dailyPnls' = dailyPnls]_vars

\* Two trades of one day separated in the list by a trade of the other day.
C15_Witness ==
    /\ Len(trades) = 3
    /\ trades[1].date = "2024-01-02"
    /\ trades[2].date = "2024-01-01"
    /\ trades[3].date = "2024-01-02"
    /\ calculatePnl(trades[1]) = 2
    /\ calculatePnl(trades[3]) = -1
    /\ dailyPnls["2024-01-02"] = 1
    /\ dailyPnls["2024-01-01"] = calculatePnl(trades[2])

\* C16: a date is a key of the mapping exactly when a trade held has that
\* date; a day whose trades sum to zero is a key with the value 0.
C16_DailyKeys ==
    /\ DOMAIN dailyPnls = {trades[i].date : i \in 1..Len(trades)}
    /\ \A d \in DOMAIN dailyPnls : DayTotal(d) = 0 => dailyPnls[d] = 0

\* A win of 1 and a loss of 1 on the same day and no trade on the other.
C16_Witness ==
    /\ Len(trades) = 2
    /\ trades[1].date = "2024-01-01"
    /\ trades[2].date = "2024-01-01"
    /\ calculatePnl(trades[1]) = 1
    /\ calculatePnl(trades[2]) = -1
    /\ DOMAIN dailyPnls = {"2024-01-01"}
    /\ dailyPnls["2024-01-01"] = 0

\* C17: the values of the daily mapping sum to netPnl.
C17_DailyTotalIsNetPnl ==
    SumOfValues(dailyPnls) = metrics.netPnl

\* Trades on both days, a loss among them.
C17_Witness ==
    /\ Len(trades) = 3
    /\ DOMAIN dailyPnls = Dates
    /\ dailyPnls["2024-01-01"] = -2
    /\ dailyPnls["2024-01-02"] = 3
    /\ metrics.netPnl = 1

\* C18: a trade whose outcome is neither win nor loss is never given a
\* number by calculatePnl.
C18_MalformedOutcomeRejected ==
    arg.outcome \notin Outcomes => ret = <<>>

C20_SameOutputOnSameInput ==
    (pc = "idle" /\ prevOut # <<>>) => out = prevOut[1]

\* calculateMetrics has returned for the second time, after a walk that
\* left the accumulator away from 0.
C20_Witness ==
    /\ pc = "idle"
    /\ callee = "calculateMetrics"
    /\ prevOut # <<>>
    /\ equity = -2
    /\ out.maxDrawdown = 2
    /\ out.netPnl = -2

\* ------------------------------------------------ claims on the list controls

\* The trades the filters let through, in the order the page holds them.
Unsorted == SelectSeq(trades, LAMBDA t : passesFilters(t, filters))

\* The filteredTrades of the current render.
Shown == filteredTradesOf(trades, filters, sortBy, sortDir)

\* list with its elements i and i + 1 exchanged.
Swap(list, i) ==
    [k \in 1..Len(list) |->
        IF k = i THEN list[i + 1] ELSE IF k = i + 1 THEN list[i] ELSE list[k]]

\* The metrics the order of the trades is claimed not to matter for.
OrderFree(m) ==
    <<m.netPnl, m.winRate, m.profitFactor, m.riskReward, m.averageWin,
      m.averageLoss, m.totalTrades>>

\* C22: calculateMetrics gives two lists that are permutations of each other
\* the same netPnl, winRate, profitFactor, riskReward, averageWin, averageLoss
\* and totalTrades (stated on adjacent exchanges, which generate every
\* permutation, of every bounded list), so a step that changes only the sort
\* key or direction of the list leaves these seven metrics as they were.
C22_OrderFreeMetrics ==
    /\ [](\A i \in 1..(Len(Unsorted) - 1) :
            OrderFree(calculateMetrics(Swap(Unsorted, i))) = OrderFree(metrics))
    /\ [][(trades' = trades /\ filters' = filters)
            => OrderFree(metrics') = OrderFree(metrics)]_vars

\* Three trades shown sorted by result in an order that is not the order
\* held, with every quotient defined.
C22_Witness ==
    /\ sortBy = "pnl"
    /\ Len(Shown) = 3
    /\ Shown # trades
    /\ metrics.profitFactor.kind = "num"
    /\ metrics.averageWin.d = 2

\* C23: a step that changes only the sort key or direction of the list
\* leaves the displayed maxDrawdown as it was, trades of one date included.
C23_DrawdownOrderFree ==
    [][(trades' = trades /\ filters' = filters)
        => metrics'.maxDrawdown = metrics.maxDrawdown]_vars

\* C28: netCapital is the value of the last point of the displayed curve
\* whenever that curve has a point, and 0 when no trade passes the filters
\* and there is no deposit.
C28_NetCapitalIsLastPoint ==
    /\ equityCurve # <<>> => netCapital = equityCurve[Len(equityCurve)].value
    /\ (Shown = <<>> /\ deposits = <<>>) => netCapital = 0
    /\ equityCurve = <<>> <=> (Shown = <<>> /\ deposits = <<>>)

\* A filter hides a trade, a withdrawal is among the deposits, and the
\* capital is neither the deposits' total nor the trades' result alone.
C28_Witness ==
    /\ filters.outcome # "all"
    /\ Shown # <<>>
    /\ Len(Shown) < Len(trades)
    /\ \E i \in 1..Len(deposits) : deposits[i].amount < 0
    /\ netCapital # metrics.netPnl
    /\ netCapital # 0

\* ------------------------------------------ claims on the ratios' null cases

\* C29: for trades with amount >= 0, profitFactor is null exactly when
\* riskReward is null; both are non-null exactly when some trade has a
\* positive result and some trade a negative one; averageLoss, when it is
\* not null, is not 0.
C29_RatiosNullTogether ==
    (\A i \in 1..Len(trades) : trades[i].amount >= 0) =>
        /\ metrics.profitFactor = Null <=> metrics.riskReward = Null
        /\ metrics.profitFactor # Null
              <=> (CountOfSign(1) > 0 /\ CountOfSign(-1) > 0)
        /\ metrics.averageLoss # Null => metrics.averageLoss # Num(0, 1)

\* A winner next to a loss of amount 0, which is no loser: both ratios null.
C29_Witness ==
    /\ \E i \in 1..Len(trades) : trades[i].outcome = "loss" /\ trades[i].amount = 0
    /\ CountOfSign(1) > 0
    /\ metrics.profitFactor = Null
    /\ metrics.riskReward = Null
    /\ metrics.averageWin # Null

\* C30: for trades with amount >= 0, maxDrawdown lies between
\* max(0, -netPnl) and the absolute value of the losers' total; it is
\* abs(netPnl) when every trade is a loss and 0 when no trade is a loser.
C30_DrawdownBounds ==
    (\A i \in 1..Len(trades) : trades[i].amount >= 0) =>
        /\ Max(0, 0 - metrics.netPnl) <= metrics.maxDrawdown
        /\ metrics.maxDrawdown <= Abs(SumOfSign(-1))
        /\ (\A i \in 1..Len(trades) : trades[i].outcome = "loss")
              => metrics.maxDrawdown = Abs(metrics.netPnl)
        /\ CountOfSign(-1) = 0 => metrics.maxDrawdown = 0

\* Both bounds strict: a recovery between two losses.
C30_Witness ==
    /\ Len(trades) = 3
    /\ Max(0, 0 - metrics.netPnl) < metrics.maxDrawdown
    /\ metrics.maxDrawdown < Abs(SumOfSign(-1))

\* ------------------------------------------- claims on the remote records

RowsOf(list) == {list[i] : i \in 1..Len(list)}

\* The requests whose awaiting handler resumes in the step.
Resumed == inflight \ inflight'

\* C21: when Supabase is not configured, submitting the add-trade or the
\* add-deposit form with a valid draft puts one more record in the local
\* state.
C21_LocalFallback ==
    [][(~supabaseConfigured /\ (handleSubmit \/ handleDeposit))
        => Len(state'.trades) + Len(state'.deposits)
             = Len(state.trades) + Len(state.deposits) + 1]_vars

\* C24: when loadRemote resumes from its fetch, every record of the local
\* state that the tables hold (an insert that succeeded and was appended)
\* is still in the local state afterwards.
C24_RefreshKeepsSavedRecords ==
    [][(\E r \in Resumed : r.op = "select")
        => \A table \in Tables :
              \A row \in RowsOf(state[table]) \cap RowsOf(remote[table]) :
                  row \in RowsOf(state'[table])]_vars

C27_SignedOutStaysEmpty ==
    [][(session = "none" /\ session' = "none" /\ state = emptyState)
        => state' = emptyState]_vars

\* ------------------------------------------- claims on useLocalStorageState

\* Every effect has run and the committed render shows the current state.
Settled ==
    /\ effects = <<>>
    /\ rendered = [state |-> state, hydrated |-> hydrated]

\* C26 (as stated): once hydrated, the state of every committed render is
\* in localStorage under the key as soon as the effects have run.
C26_EveryStateWritten ==
    (hydrated /\ Settled) => stored = JSONstringify(state)

\* C26 (amended): the item under the key changes only in a render whose
\* hydrated is true, and then to the text of that render's state, so a
\* stored value is not overwritten by the default before it has been read;
\* once the first effect has run hydrated is true, whether the read
\* succeeded, found nothing or threw; and once hydrated, the state of every
\* committed render is under the key as soon as the effects have run,
\* unless the latest setItem threw.
C26_WritesOnlyAfterHydration ==
    /\ [][stored' # stored
            => (rendered.hydrated /\ stored' = JSONstringify(rendered.state))]_vars
    /\ []((effects = <<>> \/ Head(effects) # "read") => hydrated)
    /\ []((hydrated /\ Settled /\ lastWrite # "threw")
            => stored = JSONstringify(state))

\* A value that was under the key at mount was read into the state, which
\* the caller then changed; the latest value is under the key.
C26_Witness ==
    /\ hydrated
    /\ Settled
    /\ lastWrite = "ok"
    /\ Len(state.deposits) = 1
    /\ stored = JSONstringify(state)

====
